---- MODULE Spec2Model ----
(***************************************************************************)
(* The benchmark programs under src/bench, each a self-contained main.     *)
(* Every program is a process of its own: it shares no state with the      *)
(* others.  `run` is the set of programs launched in a behaviour, pc[p]    *)
(* the position of program p in its main, out[p] the lines it has written  *)
(* to standard output and exit[p] its exit status.                         *)
(*                                                                         *)
(* `long` is the 64-bit long of the LP64 targets the benchmarks are built  *)
(* for.  TLC's integers are 32 bits wide, so a long accumulator is kept as *)
(* a pair <<hi, lo>> that stands for hi * Base + lo with 0 <= lo < Base;   *)
(* every value such a pair can hold is far below 2^63, so no long          *)
(* arithmetic of the programs overflows.  The values of fib stay below     *)
(* 2^31 and are kept as plain integers.                                    *)
(*                                                                         *)
(* malloc may return NULL.  The C programs do not check its result, so     *)
(* the first store through the pointer is then undefined; the process is   *)
(* killed by the invalid access.  Allocation inside the C++ library        *)
(* (std::string, std::vector, the streams) is taken to succeed.            *)
(***************************************************************************)
EXTENDS Integers, Sequences, FiniteSets, TLC

VARIABLES run, turn, pc, out, exit,
          fib_n, fib_ret, fib_result,
          sr_sum, sr_i,
          mf_sum, mf_count, mf_i,
          sc_result, sc_len, sc_i, sc_buf,
          sp_result, sp_i, sp_s,
          dc_items, dc_i,
          dp_items, dp_i

procvars == <<run, turn, pc, out, exit>>
fibvars == <<fib_n, fib_ret, fib_result>>
srvars == <<sr_sum, sr_i>>
mfvars == <<mf_sum, mf_count, mf_i>>
scvars == <<sc_result, sc_len, sc_i, sc_buf>>
spvars == <<sp_result, sp_i, sp_s>>
dcvars == <<dc_items, dc_i>>
dpvars == <<dp_items, dp_i>>
vars == <<procvars, fibvars, srvars, mfvars, scvars, spvars, dcvars, dpvars>>

FibPrograms == {"fib_c", "fib_cpp"}
StringPrograms == {"string_ops_c", "string_ops_cpp"}
DataPrograms == {"data_transform_c", "data_transform_cpp"}
Programs ==
    FibPrograms \cup {"sum_range", "map_filter"} \cup StringPrograms \cup DataPrograms

\* What a variable holds while it has no value of its own: a local before
\* its declaration is reached, a pointer that is null or has been freed.  Each
\* is of the kind of the values the variable holds later: an integer no
\* program computes, a string no buffer holds, a sequence no array equals.
NoInt == 0 - 1
NoLong == <<>>
Indeterminate == "indeterminate"
NULL == "NULL"
Freed == "freed"
NoArray == <<"indeterminate">>
NullArray == <<"NULL">>
FreedArray == <<"freed">>
\* Exit status the shell reports for a process killed by SIGSEGV (128 + 11).
SIGSEGV_STATUS == 128 + 11
Halted == {"done", "crashed"}

---------------------------------------------------------------------------
(* long values as pairs <<hi, lo>>. *)

Base == 1000 * 1000

Long(hi, lo) == <<hi + (lo \div Base), lo % Base>>
\* a + n for a long a and an integer 0 <= n < 2^31 - Base.
LongAdd(a, n) == Long(a[1], a[2] + n)
\* x * y as a long, for 0 <= x < Base and 0 <= y < 2000 * Base with
\* x * (y \div Base) < 2^31: the product of the base-1000 digits of x and y.
LongMul(x, y) ==
    LET x1 == x \div 1000
        x0 == x % 1000
        yh == y \div Base
        y1 == (y % Base) \div 1000
        y0 == y % 1000
        mid == x1 * y0 + x0 * y1
    IN Long(x * yh + x1 * y1 + (mid \div 1000), (mid % 1000) * 1000 + x0 * y0)

---------------------------------------------------------------------------
(* A character is a string of length one, and a C or C++ string the string *)
(* of its characters.                                                      *)

\* The terminator '\0', written @ here; no literal of the programs holds an @.
NUL == "@"

RECURSIVE IndexOf(_, _, _)
\* The place of character c in s counted from k, or 0 when s does not hold it.
IndexOf(c, s, k) ==
    IF s = "" THEN 0
    ELSE IF Head(s) = c THEN k
    ELSE IndexOf(c, Tail(s), k + 1)

Char(s, k) == SubSeq(s, k, k)

\* The decimal digits of n, as "%d" and std::to_string write them.
RECURSIVE DecDigits(_)
DecDigits(n) ==
    IF n < 0 THEN "-" \o DecDigits(0 - n)
    ELSE IF n < 10 THEN Char("0123456789", n + 1)
    ELSE DecDigits(n \div 10) \o Char("0123456789", (n % 10) + 1)

\* ::toupper in the "C" locale: a lowercase letter becomes its uppercase
\* letter, any other character is returned as it is.
toupper(c) ==
    LET k == IndexOf(c, "abcdefghijklmnopqrstuvwxyz", 1)
    IN IF k = 0 THEN c ELSE Char("ABCDEFGHIJKLMNOPQRSTUVWXYZ", k)

---------------------------------------------------------------------------
(* Operations on the state every program has. *)

\* Programs run side by side take their steps in turn.  They share no state, so
\* every interleaving of two programs leads each of them through the same states.
NextTurn(p) ==
    LET others == {q \in run \ {p} : pc[q] \notin Halted}
    IN IF others = {} THEN p ELSE CHOOSE q \in others : TRUE
Yield(p) == run' = run /\ turn' = NextTurn(p)

At(p, label) == p \in run /\ turn = p /\ pc[p] = label
Goto(p, label) == pc' = [pc EXCEPT ![p] = label]
\* printf("...\n", v) and std::cout << v << std::endl: one line holding v.
PrintLine(p, v) == out' = [out EXCEPT ![p] = Append(@, v)]
\* return 1 in place of return 0.
Return0_one(p) == exit' = [exit EXCEPT ![p] = <<1>>]

\* return 0 from main; exit[p] is <<>> until the process has ended, then its
\* exit status.
Return0(p) == exit' = [exit EXCEPT ![p] = <<0>>]
\* The process is killed by the invalid access: nothing more is written.
Crash(p) ==
    /\ pc' = [pc EXCEPT ![p] = "crashed"]
    /\ exit' = [exit EXCEPT ![p] = <<SIGSEGV_STATUS>>]
    /\ UNCHANGED out

---------------------------------------------------------------------------
(* bench/string_ops/string_ops.c *)

\* Loop bound of the concatenation loops.
STR_ITERS == 10000
\* malloc(10000): the block sized by the number of tokens.
RESULT_SIZE_tokens == STR_ITERS

\* Bytes malloc(100000) gives to result.
RESULT_SIZE == 100000
\* char buf[20]
BUF_SIZE == 20

\* sprintf(buf, "Item-%d", i).
sprintf_ITEM_mixed(i) == "Item-" \o DecDigits(i) \o NUL

\* sprintf(buf, "ITEM-%d", i): the characters written, terminator included.
sprintf_ITEM(i) == "ITEM-" \o DecDigits(i) \o NUL

\* strlen(buf): the number of characters before the first terminator.
\* strlen counting the terminator too.
RECURSIVE strlen_with_nul(_)
strlen_with_nul(b) == IF Head(b) = NUL THEN 1 ELSE 1 + strlen_with_nul(Tail(b))

RECURSIVE strlen(_)
strlen(b) == IF Head(b) = NUL THEN 0 ELSE 1 + strlen(Tail(b))

\* memcpy(dst + off, src, n) on a block whose bytes 0 .. Len(dst)-1 are the
\* ones written so far; the block's later bytes stay indeterminate.
memcpy(dst, off, src, n) ==
    SubSeq(dst, 1, off) \o SubSeq(src, 1, n) \o SubSeq(dst, off + n + 1, Len(dst))

\* What a step of this program leaves alone.
ScFrame ==
    /\ Yield("string_ops_c")
    /\ UNCHANGED <<fibvars, srvars, mfvars, spvars, dcvars, dpvars>>

\* Lines 8-10 when malloc succeeds: result[0] = '\0', len = 0.
ScMallocOk ==
    /\ At("string_ops_c", "start")
    /\ ScFrame
    /\ sc_result' = NUL
    /\ sc_len' = 0
    /\ sc_i' = 0
    /\ Goto("string_ops_c", "loop")
    /\ UNCHANGED <<sc_buf, out, exit>>

\* Lines 8-9 when malloc returns NULL: the result is not checked, and the
\* store result[0] = '\0' goes through the null pointer.
ScMallocNull ==
    /\ At("string_ops_c", "start")
    /\ ScFrame
    /\ sc_result' = NULL
    /\ Crash("string_ops_c")
    /\ UNCHANGED <<sc_len, sc_i, sc_buf>>

\* Lines 12-18, one iteration.  A token that does not fit buf, or a copy
\* that runs past the block, is an out-of-bounds write.
ScIter ==
    /\ At("string_ops_c", "loop")
    /\ ScFrame
    /\ sc_i < STR_ITERS
    /\ LET b == sprintf_ITEM(sc_i)
           buf_len == strlen(b)
       IN IF Len(b) > BUF_SIZE \/ sc_len + buf_len > RESULT_SIZE
          THEN /\ Crash("string_ops_c")
               /\ UNCHANGED <<sc_result, sc_len, sc_i, sc_buf>>
          ELSE /\ sc_buf' = b
               /\ sc_result' = memcpy(sc_result, sc_len, b, buf_len)
               /\ sc_len' = sc_len + buf_len
               /\ sc_i' = sc_i + 1
               /\ UNCHANGED <<pc, out, exit>>

\* Line 12 with i = 10000, then line 19: result[len] = '\0'.
ScLoopEnd ==
    /\ At("string_ops_c", "loop")
    /\ ScFrame
    /\ ~(sc_i < STR_ITERS)
    /\ IF sc_len >= RESULT_SIZE
       THEN /\ Crash("string_ops_c")
            /\ UNCHANGED <<sc_result, sc_len, sc_i, sc_buf>>
       ELSE /\ sc_result' = memcpy(sc_result, sc_len, NUL, 1)
            /\ Goto("string_ops_c", "print")
            /\ UNCHANGED <<sc_len, sc_i, sc_buf, out, exit>>

\* Line 21: printf("%zu\n", len).
ScPrint ==
    /\ At("string_ops_c", "print")
    /\ ScFrame
    /\ PrintLine("string_ops_c", sc_len)
    /\ Goto("string_ops_c", "free")
    /\ UNCHANGED <<scvars, exit>>

\* Lines 22-23: free(result); return 0.
ScExit ==
    /\ At("string_ops_c", "free")
    /\ ScFrame
    /\ sc_result' = Freed
    /\ Return0("string_ops_c")
    /\ Goto("string_ops_c", "done")
    /\ UNCHANGED <<sc_len, sc_i, sc_buf, out>>


---------------------------------------------------------------------------
(* bench/string_ops/string_ops.cpp *)

\* std::to_string(int): the characters "%d" writes.
to_string(i) == DecDigits(i)

\* std::transform(s.begin(), s.end(), s.begin(), ::toupper)
RECURSIVE transform_toupper(_)
transform_toupper(s) ==
    IF s = "" THEN "" ELSE toupper(Head(s)) \o transform_toupper(Tail(s))

SpFrame ==
    /\ Yield("string_ops_cpp")
    /\ UNCHANGED <<fibvars, srvars, mfvars, scvars, dcvars, dpvars>>

\* Line 7: std::string result.
SpInit ==
    /\ At("string_ops_cpp", "start")
    /\ SpFrame
    /\ sp_result' = ""
    /\ sp_i' = 0
    /\ Goto("string_ops_cpp", "loop")
    /\ UNCHANGED <<sp_s, out, exit>>

\* Lines 8-12, one iteration.
SpIter ==
    /\ At("string_ops_cpp", "loop")
    /\ SpFrame
    /\ sp_i < STR_ITERS
    /\ LET s == transform_toupper("item-" \o to_string(sp_i))
       IN /\ sp_s' = s
          /\ sp_result' = sp_result \o s
    /\ sp_i' = sp_i + 1
    /\ UNCHANGED <<pc, out, exit>>

\* Line 8 with i = 10000.
SpLoopEnd ==
    /\ At("string_ops_cpp", "loop")
    /\ SpFrame
    /\ ~(sp_i < STR_ITERS)
    /\ Goto("string_ops_cpp", "print")
    /\ UNCHANGED <<spvars, out, exit>>

\* Line 13: std::cout << result.length() << std::endl.
SpPrint ==
    /\ At("string_ops_cpp", "print")
    /\ SpFrame
    /\ PrintLine("string_ops_cpp", Len(sp_result))
    /\ Goto("string_ops_cpp", "return")
    /\ UNCHANGED <<spvars, exit>>

\* Line 14: return 0.
SpExit ==
    /\ At("string_ops_cpp", "return")
    /\ SpFrame
    /\ Return0("string_ops_cpp")
    /\ Goto("string_ops_cpp", "done")
    /\ UNCHANGED <<spvars, out>>

---------------------------------------------------------------------------
(* bench/fib30/fib.c and bench/fib.cpp: the same fib and the same main, one  *)
(* printing with printf, the other with std::cout.                           *)

\* main calling fib(38).
FIB_ARG_38 == 30 + 8

\* The argument main passes: fib(30).
FIB_ARG == 30

\* fib with the base case returning 1.
RECURSIVE fib_base1(_)
fib_base1(n) == IF n <= 1 THEN 1 ELSE fib_base1(n - 1) + fib_base1(n - 2)

RECURSIVE fib(_)
fib(n) == IF n <= 1 THEN n ELSE fib(n - 1) + fib(n - 2)

FibFrame(p) ==
    /\ Yield(p)
    /\ UNCHANGED <<fib_n, fib_ret, srvars, mfvars, scvars, spvars, dcvars, dpvars>>

\* Line 10: long result = fib(30).
FibCall(p) ==
    /\ At(p, "start")
    /\ FibFrame(p)
    /\ fib_result' = [fib_result EXCEPT ![p] = fib(FIB_ARG)]
    /\ Goto(p, "print")
    /\ UNCHANGED <<out, exit>>

\* Line 11: printf("%ld\n", result) / std::cout << result << std::endl.
FibPrint(p) ==
    /\ At(p, "print")
    /\ FibFrame(p)
    /\ PrintLine(p, fib_result[p])
    /\ Goto(p, "return")
    /\ UNCHANGED <<fib_result, exit>>

\* Line 12: return 0.
FibExit(p) ==
    /\ At(p, "return")
    /\ FibFrame(p)
    /\ Return0(p)
    /\ Goto(p, "done")
    /\ UNCHANGED <<fib_result, out>>

\* fib applied on its own to the argument in fib_n; fib_n and fib_ret hold
\* <<>> or one value.
FibApply ==
    /\ fib_n # <<>>
    /\ fib_ret = <<>>
    /\ fib_ret' = <<fib(fib_n[1])>>
    /\ UNCHANGED <<procvars, fib_n, fib_result, srvars, mfvars, scvars, spvars,
                   dcvars, dpvars>>

---------------------------------------------------------------------------
(* bench/sum_range/sum_range.cpp *)

\* Loop bound: i < 1000000.
SUM_N == 1000000

\* Line 6: i < 1000000.
SrCond == sr_i < SUM_N

SrFrame ==
    /\ Yield("sum_range")
    /\ UNCHANGED <<fibvars, mfvars, scvars, spvars, dcvars, dpvars>>

\* Lines 5-6: long sum = 0; long i = 0.
SrInit ==
    /\ At("sum_range", "start")
    /\ SrFrame
    /\ sr_sum' = Long(0, 0)
    /\ sr_i' = 0
    /\ Goto("sum_range", "loop")
    /\ UNCHANGED <<out, exit>>

\* The iteration with sum = i in place of sum += i.
SrIter_assign ==
    /\ At("sum_range", "loop")
    /\ SrFrame
    /\ SrCond
    /\ sr_sum' = Long(0, sr_i)
    /\ sr_i' = sr_i + 1
    /\ UNCHANGED <<pc, out, exit>>

\* Lines 6-8, one iteration: sum += i; i++.
SrIter ==
    /\ At("sum_range", "loop")
    /\ SrFrame
    /\ SrCond
    /\ sr_sum' = LongAdd(sr_sum, sr_i)
    /\ sr_i' = sr_i + 1
    /\ UNCHANGED <<pc, out, exit>>

\* Line 6 with i = 1000000.
SrLoopEnd ==
    /\ At("sum_range", "loop")
    /\ SrFrame
    /\ ~SrCond
    /\ Goto("sum_range", "print")
    /\ UNCHANGED <<srvars, out, exit>>

\* Line 9: std::cout << sum << std::endl.
SrPrint ==
    /\ At("sum_range", "print")
    /\ SrFrame
    /\ PrintLine("sum_range", sr_sum)
    /\ Goto("sum_range", "return")
    /\ UNCHANGED <<srvars, exit>>

\* Line 10: return 0.
SrExit ==
    /\ At("sum_range", "return")
    /\ SrFrame
    /\ Return0("sum_range")
    /\ Goto("sum_range", "done")
    /\ UNCHANGED <<srvars, out>>

---------------------------------------------------------------------------
(* bench/map_filter/map_filter.c *)

\* Loop bounds: i < 100000 && count < 10000.
MF_RANGE == 100000
MF_TAKE == 10000

\* The loop condition without the count: i < 100000.
MfCond_nocount == mf_i < MF_RANGE

\* Line 7: i < 100000 && count < 10000.
MfCond == mf_i < MF_RANGE /\ mf_count < MF_TAKE

\* i % 2 == 0.
odd_even(i) == i % 2 = 0

\* Line 8: i % 2 == 1.
odd(i) == i % 2 = 1

MfFrame ==
    /\ Yield("map_filter")
    /\ UNCHANGED <<fibvars, srvars, scvars, spvars, dcvars, dpvars>>

\* Lines 5-7: long sum = 0; int count = 0; long i = 0.
MfInit ==
    /\ At("map_filter", "start")
    /\ MfFrame
    /\ mf_sum' = Long(0, 0)
    /\ mf_count' = 0
    /\ mf_i' = 0
    /\ Goto("map_filter", "loop")
    /\ UNCHANGED <<out, exit>>

\* Lines 7-12, one iteration.
MfIter ==
    /\ At("map_filter", "loop")
    /\ MfFrame
    /\ MfCond
    /\ IF odd(mf_i)
       THEN /\ mf_sum' = LongAdd(mf_sum, mf_i * mf_i)
            /\ mf_count' = mf_count + 1
       ELSE UNCHANGED <<mf_sum, mf_count>>
    /\ mf_i' = mf_i + 1
    /\ UNCHANGED <<pc, out, exit>>

\* Line 7 with the loop condition false.
MfLoopEnd ==
    /\ At("map_filter", "loop")
    /\ MfFrame
    /\ ~MfCond
    /\ Goto("map_filter", "print")
    /\ UNCHANGED <<mfvars, out, exit>>

\* Line 13: printf("%ld\n", sum).
MfPrint ==
    /\ At("map_filter", "print")
    /\ MfFrame
    /\ PrintLine("map_filter", mf_sum)
    /\ Goto("map_filter", "return")
    /\ UNCHANGED <<mfvars, exit>>

\* Line 14: return 0.
MfExit ==
    /\ At("map_filter", "return")
    /\ MfFrame
    /\ Return0("map_filter")
    /\ Goto("map_filter", "done")
    /\ UNCHANGED <<mfvars, out>>

---------------------------------------------------------------------------
(* bench/data_transform/data_transform.c *)

\* Number of records: malloc(sizeof(Item) * 10000), i < 10000, reserve(10000).
ITEMS_N == 10000

\* typedef struct { int id; int value; int doubled; } Item
Item(id, value, doubled) == [id |-> id, value |-> value, doubled |-> doubled]
\* A record of the malloc'ed array that no store has reached yet.
NoItem == <<>>

\* {i, i, i + 2}.
ItemOf_plus2(i) == Item(i, i, i + 2)

\* The record iteration i builds: {i, i, i * 2}.
ItemOf(i) == Item(i, i, i * 2)

DcFrame ==
    /\ Yield("data_transform_c")
    /\ UNCHANGED <<fibvars, srvars, mfvars, scvars, spvars, dpvars>>

\* Line 8 when malloc succeeds: 10000 records, none of them set.
DcMallocOk ==
    /\ At("data_transform_c", "start")
    /\ DcFrame
    /\ dc_items' = [k \in 1..ITEMS_N |-> NoItem]
    /\ dc_i' = 0
    /\ Goto("data_transform_c", "loop")
    /\ UNCHANGED <<out, exit>>

\* Line 8 when malloc returns NULL, then line 11: items[0].id = 0 is a store
\* through the null pointer.
DcMallocNull ==
    /\ At("data_transform_c", "start")
    /\ DcFrame
    /\ dc_items' = NullArray
    /\ UNCHANGED dc_i
    /\ Crash("data_transform_c")

\* Lines 10-14, one iteration; items[i] is element i + 1 of the sequence.
DcIter ==
    /\ At("data_transform_c", "loop")
    /\ DcFrame
    /\ dc_i < ITEMS_N
    /\ IF dc_i + 1 \notin DOMAIN dc_items
       THEN /\ Crash("data_transform_c")
            /\ UNCHANGED dcvars
       ELSE /\ dc_items' = [dc_items EXCEPT ![dc_i + 1] = ItemOf(dc_i)]
            /\ dc_i' = dc_i + 1
            /\ UNCHANGED <<pc, out, exit>>

\* Line 10 with i = 10000.
DcLoopEnd ==
    /\ At("data_transform_c", "loop")
    /\ DcFrame
    /\ ~(dc_i < ITEMS_N)
    /\ Goto("data_transform_c", "print")
    /\ UNCHANGED <<dcvars, out, exit>>

\* Line 16: printf("%d\n", 10000).
DcPrint ==
    /\ At("data_transform_c", "print")
    /\ DcFrame
    /\ PrintLine("data_transform_c", 10000)
    /\ Goto("data_transform_c", "free")
    /\ UNCHANGED <<dcvars, exit>>

\* Lines 17-18: free(items); return 0.
DcExit ==
    /\ At("data_transform_c", "free")
    /\ DcFrame
    /\ dc_items' = FreedArray
    /\ Return0("data_transform_c")
    /\ Goto("data_transform_c", "done")
    /\ UNCHANGED <<dc_i, out>>

---------------------------------------------------------------------------
(* bench/data_transform/data_transform.cpp *)

DpFrame ==
    /\ Yield("data_transform_cpp")
    /\ UNCHANGED <<fibvars, srvars, mfvars, scvars, spvars, dcvars>>

\* Lines 8-9: std::vector<Item> items; items.reserve(10000).
DpInit ==
    /\ At("data_transform_cpp", "start")
    /\ DpFrame
    /\ dp_items' = <<>>
    /\ dp_i' = 0
    /\ Goto("data_transform_cpp", "loop")
    /\ UNCHANGED <<out, exit>>

\* Lines 11-13, one iteration: items.push_back({i, i, i * 2}).
DpIter ==
    /\ At("data_transform_cpp", "loop")
    /\ DpFrame
    /\ dp_i < ITEMS_N
    /\ dp_items' = Append(dp_items, ItemOf(dp_i))
    /\ dp_i' = dp_i + 1
    /\ UNCHANGED <<pc, out, exit>>

\* Line 11 with i = 10000.
DpLoopEnd ==
    /\ At("data_transform_cpp", "loop")
    /\ DpFrame
    /\ ~(dp_i < ITEMS_N)
    /\ Goto("data_transform_cpp", "print")
    /\ UNCHANGED <<dpvars, out, exit>>

\* Line 15: std::cout << items.size() << std::endl.
DpPrint ==
    /\ At("data_transform_cpp", "print")
    /\ DpFrame
    /\ PrintLine("data_transform_cpp", Len(dp_items))
    /\ Goto("data_transform_cpp", "return")
    /\ UNCHANGED <<dpvars, exit>>

\* Line 16: return 0.
DpExit ==
    /\ At("data_transform_cpp", "return")
    /\ DpFrame
    /\ Return0("data_transform_cpp")
    /\ Goto("data_transform_cpp", "done")
    /\ UNCHANGED <<dpvars, out>>

---------------------------------------------------------------------------
(* Specifications. *)

\* The arguments fib is applied to on its own: -FIB_ARG_LOW .. FIB_ARG_SMALL,
\* and the two the documented outputs name.
FIB_ARG_LOW == 40
FIB_ARG_SMALL == 20
FibArgs == ((0 - FIB_ARG_LOW)..FIB_ARG_SMALL) \cup {30, 38}

\* The state before main is entered.
Start(launched, arg) ==
    /\ run = launched
    /\ turn = IF "string_ops_c" \in launched THEN "string_ops_c"
              ELSE IF launched = {} THEN ""
              ELSE CHOOSE p \in launched : TRUE
    /\ pc = [p \in Programs |-> "start"]
    /\ out = [p \in Programs |-> <<>>]
    /\ exit = [p \in Programs |-> <<>>]
    /\ fib_n = arg /\ fib_ret = <<>>
    /\ fib_result = [p \in FibPrograms |-> NoInt]
    /\ sr_sum = NoLong /\ sr_i = NoInt
    /\ mf_sum = NoLong /\ mf_count = NoInt /\ mf_i = NoInt
    /\ sc_result = Indeterminate /\ sc_len = NoInt /\ sc_i = NoInt
    /\ sc_buf = Indeterminate
    /\ sp_result = Indeterminate /\ sp_i = NoInt /\ sp_s = Indeterminate
    /\ dc_items = NoArray /\ dc_i = NoInt
    /\ dp_items = NoArray /\ dp_i = NoInt

FibMain == \E p \in FibPrograms : FibCall(p) \/ FibPrint(p) \/ FibExit(p)
SumRangeMain == SrInit \/ SrIter \/ SrLoopEnd \/ SrPrint \/ SrExit
MapFilterMain == MfInit \/ MfIter \/ MfLoopEnd \/ MfPrint \/ MfExit
StringOpsCMain == ScMallocOk \/ ScMallocNull \/ ScIter \/ ScLoopEnd \/ ScPrint \/ ScExit
StringOpsCppMain == SpInit \/ SpIter \/ SpLoopEnd \/ SpPrint \/ SpExit
DataTransformCMain ==
    DcMallocOk \/ DcMallocNull \/ DcIter \/ DcLoopEnd \/ DcPrint \/ DcExit
DataTransformCppMain == DpInit \/ DpIter \/ DpLoopEnd \/ DpPrint \/ DpExit

\* Any one program, run alone.
Init == \E p \in Programs : Start({p}, <<>>)
Next ==
    \/ FibMain \/ SumRangeMain \/ MapFilterMain
    \/ StringOpsCMain \/ StringOpsCppMain
    \/ DataTransformCMain \/ DataTransformCppMain
Spec == Init /\ [][Next]_vars

\* One of the Fibonacci programs, or fib applied to one argument.
InitFib ==
    \/ \E p \in FibPrograms : Start({p}, <<>>)
    \/ \E n \in FibArgs : Start({}, <<n>>)
NextFib == FibMain \/ FibApply
\* A process that has not halted keeps taking steps.
FairSpec == Spec /\ WF_vars(Next)

SpecFib == InitFib /\ [][NextFib]_vars

InitSumRange == Start({"sum_range"}, <<>>)
SpecSumRange == InitSumRange /\ [][SumRangeMain]_vars

InitMapFilter == Start({"map_filter"}, <<>>)
SpecMapFilter == InitMapFilter /\ [][MapFilterMain]_vars

\* One of the string programs alone, or the two side by side.
InitStringOps ==
    \/ \E p \in StringPrograms : Start({p}, <<>>)
    \/ Start(StringPrograms, <<>>)
NextStringOps == StringOpsCMain \/ StringOpsCppMain
SpecStringOps == InitStringOps /\ [][NextStringOps]_vars

InitDataTransform == \E p \in DataPrograms : Start({p}, <<>>)
NextDataTransform == DataTransformCMain \/ DataTransformCppMain
SpecDataTransform == InitDataTransform /\ [][NextDataTransform]_vars

---------------------------------------------------------------------------
(* Properties. *)

\* A program has left the loop and not yet halted, or has returned from main.
AfterLoop(p) == pc[p] \in {"print", "free", "return", "done"}
\* A program has written its line.
AfterPrint(p) == pc[p] \in {"free", "return", "done"}

\* k * (k + 1) / 2 as a long, for 0 <= k < Base.
Triangle(k) ==
    IF k % 2 = 0 THEN LongMul(k \div 2, k + 1) ELSE LongMul(k, (k + 1) \div 2)

\* 1^2 + 3^2 + ... + (2m - 1)^2 = m (2m - 1)(2m + 1) / 3 as a long, for
\* 0 <= m <= 10000; 3 divides m or (2m - 1)(2m + 1).
SumOddSquares(m) ==
    LET q == (2 * m - 1) * (2 * m + 1)
    IN IF m % 3 = 0 THEN LongMul(m \div 3, q) ELSE LongMul(m, q \div 3)

\* The same two quantities by their definitions, for small arguments.
OddsBelow(i) == {k \in 0..(i - 1) : k % 2 = 1}
RECURSIVE SumSquares(_)
SumSquares(S) ==
    IF S = {} THEN 0
    ELSE LET k == CHOOSE x \in S : TRUE IN k * k + SumSquares(S \ {k})

\* Loop heads up to which the map_filter invariant is also checked against
\* the definitions above.
MF_DIRECT == 60

\* C3: the range-summation loop keeps sum = k (k + 1) / 2 for the last value k
\* added (sum = 0 before the first), leaves with sum = 0 + 1 + ... + 999999 =
\* 499999500000, and that is the line the program prints.
C3_SumRange ==
    /\ pc["sum_range"] = "loop" =>
          /\ sr_i \in 0..SUM_N
          /\ sr_sum = IF sr_i = 0 THEN Long(0, 0) ELSE Triangle(sr_i - 1)
    /\ AfterLoop("sum_range") => sr_sum = Long(499999, 500000)
    /\ pc["sum_range"] \in {"return", "done"} =>
          out["sum_range"] = <<Long(499999, 500000)>>

\* Iteration k = 2000 has run: the accumulator has passed Base and holds
\* 2000 * 2001 / 2 = 2001000.
C3_Witness ==
    /\ pc["sum_range"] = "loop"
    /\ sr_i = 2001
    /\ sr_sum = Long(2, 1000)
    /\ sr_sum = Triangle(2000)

\* C2, as the spec states it: map_filter ends with sum = 1333283335000 and
\* prints it.
C2_Prints1333283335000 ==
    pc["map_filter"] = "done" =>
        /\ mf_sum = Long(1333283, 335000)
        /\ out["map_filter"] = <<Long(1333283, 335000)>>

\* C2, amended: the loop that keeps the odd i of [0, 100000), adds i * i and
\* stops after 10000 values ends with sum = 1333333330000, the sum of the
\* squares of the first 10000 odd numbers, and the program prints that.
C2_Prints1333333330000 ==
    /\ AfterLoop("map_filter") =>
          /\ mf_sum = Long(1333333, 330000)
          /\ mf_sum = SumOddSquares(MF_TAKE)
    /\ pc["map_filter"] \in {"return", "done"} =>
          out["map_filter"] = <<Long(1333333, 330000)>>

C2_Witness ==
    /\ pc["map_filter"] = "done"
    /\ mf_count = MF_TAKE
    /\ out["map_filter"] = <<Long(1333333, 330000)>>

\* C9: at every loop head of map_filter count is the number of odd integers in
\* [0, i) and sum the sum of their squares, with count <= 10000; the loop is
\* left with count = 10000 at i = 20000, before i reaches 100000, so the odd
\* numbers from 20000 on add nothing.
C9_MapFilterLoop ==
    /\ pc["map_filter"] = "loop" =>
          /\ mf_i \in 0..(2 * MF_TAKE)
          /\ mf_count = mf_i \div 2
          /\ mf_count <= MF_TAKE
          /\ mf_sum = SumOddSquares(mf_count)
          /\ mf_i <= MF_DIRECT =>
                /\ mf_count = Cardinality(OddsBelow(mf_i))
                /\ mf_sum = Long(0, SumSquares(OddsBelow(mf_i)))
    /\ AfterLoop("map_filter") =>
          /\ mf_count = MF_TAKE
          /\ mf_i = 2 * MF_TAKE
          /\ mf_i < MF_RANGE

C9_Witness ==
    /\ pc["map_filter"] = "print"
    /\ mf_count = MF_TAKE
    /\ mf_i = 2 * MF_TAKE

\* The first len bytes of the C buffer.
CContents == SubSeq(sc_result, 1, sc_len)

\* The number of characters of "ITEM-0" .. "ITEM-<i - 1>" together, for
\* 0 <= i <= 100000: five for each "ITEM-" and one for each decimal digit.
Over(i, k) == IF i > k THEN i - k ELSE 0
TokensLength(i) == 5 * i + i + Over(i, 10) + Over(i, 100) + Over(i, 1000) + Over(i, 10000)

\* C1, as the spec states it: both string programs print 86894.
C1_Prints86894 ==
    \A p \in StringPrograms : pc[p] = "done" => out[p] = <<86894>>

\* C1, amended: after the 10000 tokens "ITEM-0" .. "ITEM-9999" are appended
\* the length printed is 88890, by the C program (len) whenever malloc
\* succeeded and by the C++ program (result.length()).
C1_Prints88890 ==
    /\ pc["string_ops_c"] = "loop" => sc_len = TokensLength(sc_i)
    /\ pc["string_ops_cpp"] = "loop" => Len(sp_result) = TokensLength(sp_i)
    /\ AfterLoop("string_ops_c") => sc_i = STR_ITERS /\ sc_len = 88890
    /\ AfterLoop("string_ops_cpp") => sp_i = STR_ITERS /\ Len(sp_result) = 88890
    /\ \A p \in StringPrograms : AfterPrint(p) => out[p] = <<88890>>

C1_Witness ==
    \E p \in StringPrograms :
        run = {p} /\ pc[p] = "done" /\ out[p] = <<88890>> /\ exit[p] = <<0>>

\* C8: in the C string program len never decreases, every token with its
\* terminator fits the 20 bytes of buf, len + buf_len < 100000 at every
\* iteration, and every memcpy and the final result[len] = '\0' stay inside
\* the 100000 bytes: no run ends in an out-of-bounds write.
C8_BufferBounded ==
    /\ [](pc["string_ops_c"] = "loop" /\ sc_i > 0 =>
            /\ Len(sc_buf) <= BUF_SIZE
            /\ strlen(sc_buf) = Len(sc_buf) - 1
            /\ sc_len < RESULT_SIZE
            /\ Len(sc_result) = sc_len)
    /\ [](AfterLoop("string_ops_c") /\ pc["string_ops_c"] # "done" =>
            /\ sc_len < RESULT_SIZE
            /\ Len(sc_result) = sc_len + 1
            /\ Len(sc_result) <= RESULT_SIZE
            /\ Char(sc_result, sc_len + 1) = NUL)
    /\ [](pc["string_ops_c"] = "crashed" => sc_result = NULL)
    /\ [][pc["string_ops_c"] = "loop" /\ pc'["string_ops_c"] = "loop"
               /\ sc_i' # sc_i
             => /\ sc_len' >= sc_len
                /\ sc_len' = sc_len + strlen(sc_buf')
                /\ sc_len + strlen(sc_buf') < RESULT_SIZE]_vars

\* The iteration that appends "ITEM-1000", the first token of the longest
\* kind, has run.
C8_Witness ==
    /\ run = {"string_ops_c"}
    /\ pc["string_ops_c"] = "loop"
    /\ sc_i = 1001
    /\ sc_buf = "ITEM-1000" \o NUL
    /\ sc_len = 7899
    /\ sc_len + strlen(sc_buf) < RESULT_SIZE

\* C10: side by side, whenever the C and the C++ string programs have both
\* finished iteration i (0 <= i <= 10000) the C buffer result[0 .. len) and
\* the C++ string result hold the same characters; both print the same length.
C10_SameContents ==
    run = StringPrograms =>
        /\ pc["string_ops_c"] = "loop" /\ pc["string_ops_cpp"] = "loop"
              /\ sc_i = sp_i
              => CContents = sp_result
        /\ pc["string_ops_c"] \in {"print", "free"} /\ AfterLoop("string_ops_cpp")
              => CContents = sp_result
        /\ AfterPrint("string_ops_c") /\ AfterPrint("string_ops_cpp")
              => out["string_ops_c"] = out["string_ops_cpp"]

\* Both programs have appended "ITEM-0" .. "ITEM-1000".
C10_Witness ==
    /\ run = StringPrograms
    /\ pc["string_ops_c"] = "loop" /\ pc["string_ops_cpp"] = "loop"
    /\ sc_i = 1001 /\ sp_i = 1001
    /\ sc_buf = "ITEM-1000" \o NUL /\ sp_s = "ITEM-1000"
    /\ CContents = sp_result
    /\ Len(sp_result) = 7899

\* The record the claim expects at index j.
Built(j) == Item(j, j, 2 * j)

\* The whole array is compared with the expected one at every loop head whose
\* i is a multiple of this, and after the loop.
C6_FULL_EVERY == 250

\* C6: in both struct-array programs, at the start of iteration i exactly the
\* records 0 .. i-1 are built, record j holding id = j, value = j and
\* doubled = 2 j; when the loop is left the array holds 10000 such records,
\* and the count printed, 10000, is the number of records built.  Every
\* iteration is checked to build record i and to leave all others as they
\* were, and the arrays are compared whole at the loop heads named above.
C6_RecordsBuilt ==
    /\ [](pc["data_transform_c"] \in {"loop", "print", "free"} =>
            /\ dc_i \in 0..ITEMS_N
            /\ Len(dc_items) = ITEMS_N
            /\ dc_i > 0 => dc_items[dc_i] = Built(dc_i - 1)
            /\ dc_i < ITEMS_N => dc_items[dc_i + 1] = NoItem
            /\ dc_i % C6_FULL_EVERY = 0 \/ dc_i = ITEMS_N =>
                  \A j \in 1..ITEMS_N :
                      dc_items[j] = IF j <= dc_i THEN Built(j - 1) ELSE NoItem)
    /\ [](pc["data_transform_cpp"] \in {"loop", "print", "return", "done"} =>
            /\ dp_i \in 0..ITEMS_N
            /\ Len(dp_items) = dp_i
            /\ dp_i > 0 => dp_items[dp_i] = Built(dp_i - 1)
            /\ dp_i % C6_FULL_EVERY = 0 \/ dp_i = ITEMS_N =>
                  \A j \in 1..dp_i : dp_items[j] = Built(j - 1))
    /\ [][pc["data_transform_c"] = "loop" /\ pc'["data_transform_c"] = "loop"
            /\ dc_i' # dc_i
            => /\ dc_i' = dc_i + 1
               /\ SubSeq(dc_items', 1, dc_i) = SubSeq(dc_items, 1, dc_i)
               /\ SubSeq(dc_items', dc_i + 2, ITEMS_N)
                     = SubSeq(dc_items, dc_i + 2, ITEMS_N)]_vars
    /\ [][pc["data_transform_cpp"] = "loop" /\ pc'["data_transform_cpp"] = "loop"
            /\ dp_i' # dp_i
            => /\ dp_i' = dp_i + 1
               /\ SubSeq(dp_items', 1, dp_i) = dp_items]_vars
    /\ [](AfterLoop("data_transform_c") => dc_i = ITEMS_N)
    /\ [](AfterLoop("data_transform_cpp") =>
            dp_i = ITEMS_N /\ Len(dp_items) = 10000)
    /\ [](AfterPrint("data_transform_c") =>
            out["data_transform_c"] = <<10000>> /\ dc_i = 10000)
    /\ [](AfterPrint("data_transform_cpp") =>
            out["data_transform_cpp"] = <<10000>> /\ Len(dp_items) = 10000)

\* Iteration 40 of the C++ program is about to start, records 0 .. 39 built.
C6_Witness ==
    /\ pc["data_transform_cpp"] = "loop"
    /\ dp_i = 40
    /\ Len(dp_items) = 40
    /\ dp_items[40] = Item(39, 39, 78)
    /\ \A j \in 1..40 : dp_items[j] = Built(j - 1)

\* C4: fib(n) is n for n <= 1, fib(30) is 832040, and both Fibonacci programs
\* write 832040 as their one line.
C4_Fib30 ==
    /\ fib_n # <<>> /\ fib_ret # <<>> =>
          /\ fib_n[1] <= 1 => fib_ret = fib_n
          /\ fib_n[1] = 30 => fib_ret = <<832040>>
    /\ \A p \in FibPrograms :
          /\ AfterLoop(p) => fib_result[p] = 832040
          /\ AfterPrint(p) => out[p] = <<832040>>

C4_Witness ==
    \E p \in FibPrograms : pc[p] = "done" /\ out[p] = <<832040>> /\ exit[p] = <<0>>

\* C5, as the spec states it: fib(38) is 39088169, and a Fibonacci program run
\* with its fixed constants writes 39088169.
C5_ProgramPrints39088169 ==
    /\ fib_n = <<38>> /\ fib_ret # <<>> => fib_ret = <<39088169>>
    /\ \A p \in FibPrograms : pc[p] = "done" => out[p] = <<39088169>>

\* C5, amended: fib(38) is 39088169, but no program of the repository calls
\* fib(38): both pass 30 and write fib(30), so neither writes 39088169.
C5_Fib38 ==
    /\ fib_n = <<38>> /\ fib_ret # <<>> => fib_ret = <<39088169>>
    /\ FIB_ARG = 30
    /\ \A p \in FibPrograms :
          AfterPrint(p) => Len(out[p]) = 1 /\ out[p][1] # 39088169

C5_Witness ==
    /\ fib_n = <<38>>
    /\ fib_ret = <<39088169>>

MallocPrograms == {"string_ops_c", "data_transform_c"}
LongPrograms == {"sum_range", "map_filter"}
\* The values a line of program p can hold: a decimal integer.
Decimal(p) == IF p \in LongPrograms THEN Nat \X (0..(Base - 1)) ELSE Nat

AllHalted == \A p \in run : pc[p] \in Halted

====
